---- MODULE Spec2Model ----
(***************************************************************************)
(* SecureStore of mgconfig (src/mgconfig/secure_store.py): an encrypted,   *)
(* integrity protected key-value store with automatic master key rotation. *)
(*                                                                         *)
(* Cryptography is modelled symbolically: a derived key, a ciphertext, a   *)
(* hash and a MAC are records that name what they were computed from, so   *)
(* two of them are equal exactly when their inputs are equal, and an AEAD  *)
(* decryption succeeds exactly when key, nonce, associated data and        *)
(* ciphertext are the ones of the encryption.                              *)
(***************************************************************************)
EXTENDS Integers, Sequences, FiniteSets, TLC

VARIABLES
    disk,     \* the JSON document at securestore_file, or NoFile
    ss,       \* ss[i]: the SecureStore object i of a caller (its attributes)
    known,    \* number of master keys generated so far (keys are 1..known)
    ops,      \* ops[i]: number of mutating calls made on object i
    last,     \* history: the operation performed by the last step and its result
    origin,   \* history: which operation wrote the current document
    tmp,      \* tmp[i]: the temporary file of the save object i is running
    left      \* number of temporary files left next to the target

vars == <<disk, ss, known, ops, last, origin, tmp, left>>

----------------------------------------------------------------------------
(* Bounds of the model *)

MaxKeys == 2
MaxOps == 1
MaxNonce == 1
MaxSalt == 1
NumInst == 2

Insts == 1..NumInst
Keys == 1..MaxKeys
NonceVals == 1..MaxNonce
SaltVals == 1..MaxSalt

(* Program constants *)

VERSION == 1
KDF_ALG == "HKDF-SHA256"
ITEMS_MAC_ALG == "HMAC-SHA256"
AUTO_EXCHANGE_OLD_MASTER_KEY == "_aemk_old_k"
MAX_SECRET_LEN == 1000
KEY_STR_LEN == 44
ITEMNAME_NONCE == "n"
ITEMNAME_CIPHERTEXT == "ct"

(* Inputs of the callers: item names and secret strings (text and its     *)
(* length in UTF-8 bytes).                                                 *)

UserNames == {"A", "B"}
AllNames == UserNames \cup {AUTO_EXCHANGE_OLD_MASTER_KEY}
Values == { [s |-> "x", len |-> 1], [s |-> "y", len |-> MAX_SECRET_LEN] }
LongValues == { [s |-> "z", len |-> MAX_SECRET_LEN + 1] }

(* Python's None, and the absence of the file *)
None == [none |-> TRUE]
NoFile == [nofile |-> TRUE]
NoSalt == 0
NoKey == 0

----------------------------------------------------------------------------
(* secure_store_helpers.py *)

bytes_to_b64str(value_bytes) == [b64 |-> value_bytes]

b64str_to_bytes(value_str) == value_str.b64

hash_bytes(value) == bytes_to_b64str([sha256 |-> value])

(* A byte string an attacker can flip bits of: x is the mask xor-ed onto   *)
(* the first byte (0 leaves the bytes as produced).                        *)
Bytes(v) == [v |-> v, x |-> 0]

FlipBits(b) == [b EXCEPT !.x = 1 - @]

(* UTF-8 length of a secret string: a caller's value carries its length, a *)
(* Base64 master key string has 44 characters.                             *)
Utf8Len(value) == IF "len" \in DOMAIN value THEN value.len ELSE KEY_STR_LEN

----------------------------------------------------------------------------
(* The item map: a Python dict, i.e. a sequence of entries in insertion    *)
(* order with unique names.                                                *)

DictNames(items) == { items[j].name : j \in 1..Len(items) }

DictHas(items, name) == name \in DictNames(items)

DictIndex(items, name) == CHOOSE j \in 1..Len(items) : items[j].name = name

DictGet(items, name) ==
    IF DictHas(items, name) THEN items[DictIndex(items, name)] ELSE None

DictSet(items, name, n, ct) ==
    LET e == [name |-> name, n |-> n, ct |-> ct]
    IN IF DictHas(items, name)
       THEN [items EXCEPT ![DictIndex(items, name)] = e]
       ELSE Append(items, e)

DictPop(items, name) == SelectSeq(items, LAMBDA e : e.name # name)

(* json.dumps(items, sort_keys=True): the entries in the order of their    *)
(* names ("A" < "B" < "_aemk_old_k" by code point).                        *)
SortedNames == <<"A", "B", AUTO_EXCHANGE_OLD_MASTER_KEY>>

(* A serialization in insertion order, as json.dumps without sort_keys *)
canonicalize_items_unsorted(items) == items

canonicalize_items(items) ==
    LET present == SelectSeq(SortedNames, LAMBDA nm : DictHas(items, nm))
    IN [j \in 1..Len(present) |-> DictGet(items, present[j])]

----------------------------------------------------------------------------
(* Key derivation, associated data, AEAD and HMAC of a store object st     *)

HasHeader(st) == st.header # None

key(st, key_type) == [hkdf |-> key_type, ikm |-> st.mk, salt |-> st.salt]

master_key_str(st) == bytes_to_b64str(st.mk)

master_key_hash(st) == hash_bytes(st.mk)

aad(st, name) ==
    [version |-> st.header.version, salt_b64 |-> st.header.salt_b64,
     mk_hash |-> st.header.mk_hash, name |-> name]

AESGCM_encrypt(k, nonce, data, ad) ==
    Bytes([k |-> k, nonce |-> nonce, ad |-> ad, pt |-> data])

(* A decryption that verifies no tag: nonce and bit flips go unnoticed *)
AESGCM_decrypt_no_tag(k, nonce, ct, ad) ==
    IF ct.v.k = k /\ ct.v.ad = ad THEN ct.v.pt ELSE None

(* The plaintext, or None where the library raises InvalidTag *)
AESGCM_decrypt(k, nonce, ct, ad) ==
    IF ct.x = 0 /\ ct.v.k = k /\ ct.v.nonce = nonce /\ ct.v.ad = ad
    THEN ct.v.pt
    ELSE None

compute_items_mac(st, items) ==
    bytes_to_b64str([hmac |-> key(st, "mac"), msg |-> canonicalize_items(items)])

(* A verification that only looks for a MAC to be there *)
verify_items_mac_present(st, items, mac_b64) == mac_b64 # None

verify_items_mac(st, items, mac_b64) ==
    IF mac_b64 = None THEN FALSE
    ELSE b64str_to_bytes(mac_b64) = b64str_to_bytes(compute_items_mac(st, items))

----------------------------------------------------------------------------
(* Results of an operation: the value it returns or the exception it raises *)

RetNone == [t |-> "None"]
RetBool(b) == [t |-> "bool", b |-> b]
RetStr(v) == [t |-> "str", v |-> v]
Raise(e) == [t |-> "raise", e |-> e]

IsRaise(r) == r.t = "raise"

(* An operation yields the store object after it, its result, and the      *)
(* document it wrote to the file (None when it wrote nothing).             *)
Outcome(st, ret, doc) == [st |-> st, ret |-> ret, doc |-> doc]

----------------------------------------------------------------------------
(* store, retrieve and delete items *)

(* A store_secret that checks the length after it stored the item *)
store_secret_late_check(st, name, value, nonce) ==
    IF ~HasHeader(st)
    THEN Outcome(st, Raise("AttributeError"), None)
    ELSE Outcome([st EXCEPT !.items =
                      DictSet(@, name, bytes_to_b64str(nonce),
                              bytes_to_b64str(AESGCM_encrypt(key(st, "enc"), nonce,
                                                             value, aad(st, name)))),
                            !.dirty = TRUE],
                 IF Utf8Len(value) > MAX_SECRET_LEN
                 THEN Raise("ValueError") ELSE RetNone,
                 None)

(* A store_secret that keeps another nonce than the one it encrypted with *)
store_secret_other_nonce(st, name, value, nonce) ==
    IF Utf8Len(value) > MAX_SECRET_LEN
    THEN Outcome(st, Raise("ValueError"), None)
    ELSE IF ~HasHeader(st)
    THEN Outcome(st, Raise("AttributeError"), None)
    ELSE Outcome([st EXCEPT !.items =
                      DictSet(@, name, bytes_to_b64str(FlipBits(nonce)),
                              bytes_to_b64str(AESGCM_encrypt(key(st, "enc"), nonce,
                                                             value, aad(st, name)))),
                            !.dirty = TRUE],
                 RetNone, None)

store_secret(st, name, value, nonce) ==
    IF Utf8Len(value) > MAX_SECRET_LEN
    THEN Outcome(st, Raise("ValueError"), None)
    ELSE IF ~HasHeader(st)
    THEN Outcome(st, Raise("AttributeError"), None)
    ELSE Outcome([st EXCEPT !.items =
                      DictSet(@, name, bytes_to_b64str(nonce),
                              bytes_to_b64str(AESGCM_encrypt(key(st, "enc"), nonce,
                                                             value, aad(st, name)))),
                            !.dirty = TRUE],
                 RetNone, None)

(* retrieve_secret once the entry is looked up: None for a missing entry   *)
(* and for every exception of the decryption.                              *)
decrypt_entry(st, name, entry) ==
    IF entry = None THEN None
    ELSE IF ~HasHeader(st) THEN None
    ELSE AESGCM_decrypt(key(st, "enc"), b64str_to_bytes(entry.n),
                        b64str_to_bytes(entry.ct), aad(st, name))

retrieve_secret(st, name) == decrypt_entry(st, name, DictGet(st.items, name))

(* A delete_secret that writes the document at once *)
delete_secret_saving(st, name) ==
    Outcome([st EXCEPT !.dirty = TRUE, !.items = DictPop(@, name)],
            RetBool(DictHas(st.items, name)),
            [header |-> st.header, items |-> DictPop(st.items, name)])

(* A delete_secret that empties the item map *)
delete_secret_all(st, name) ==
    Outcome([st EXCEPT !.dirty = TRUE, !.items = <<>>],
            RetBool(DictHas(st.items, name)), None)

delete_secret(st, name) ==
    Outcome([st EXCEPT !.dirty = TRUE, !.items = DictPop(@, name)],
            RetBool(DictHas(st.items, name)), None)

(* One iteration of the loop of store_all_secrets; an iteration that       *)
(* raises ends the loop.                                                   *)
store_next(prev, kv, nonces) ==
    IF IsRaise(prev.ret) THEN prev
    ELSE store_secret(prev.st, kv.name, kv.value, nonces[kv.name])

store_all_secrets(st, unencrypted_values, nonces) ==
    LET after[j \in 0..Len(unencrypted_values)] ==
            IF j = 0 THEN Outcome(st, RetNone, None)
            ELSE store_next(after[j - 1], unencrypted_values[j], nonces)
    IN after[Len(unencrypted_values)]

(* The dict retrieve_all_secrets builds from the entries that decrypt *)
decrypt_all(st, found) ==
    [j \in 1..Len(found) |->
        [name |-> found[j].name, value |-> retrieve_secret(st, found[j].name)]]

retrieve_all_secrets(st) ==
    decrypt_all(st, SelectSeq(st.items, LAMBDA e : retrieve_secret(st, e.name) # None))

----------------------------------------------------------------------------
(* securestore_file (ssf) create, load, save, delete *)

Document(header, items) == [header |-> header, items |-> items]

(* The first part of the serialized document, as a write that was cut     *)
(* short leaves it in a file                                               *)
Partial(doc) == [partial |-> doc]

(* json.loads succeeds on the whole serialized document only *)
IsJson(content) == "header" \in DOMAIN content /\ "items" \in DOMAIN content

(* A field list that lets a header without items_mac_alg pass *)
HeaderFieldsNoAlg ==
    {"version", "kdf", "salt_b64", "created_at", "mk_hash", "items_mac_b64"}

HeaderFields ==
    {"version", "kdf", "salt_b64", "created_at", "mk_hash", "items_mac_b64",
     "items_mac_alg"}

(* A write that keeps the items of the file the object does not have *)
ssf_write_merging(st) ==
    Outcome(st, RetNone,
            Document(st.header,
                     IF IsJson(disk)
                     THEN st.items \o SelectSeq(disk.items,
                                                LAMBDA e : ~DictHas(st.items, e.name))
                     ELSE st.items))

(* The atomic replacement of the file by the serialized object *)
ssf_write(st) == Outcome(st, RetNone, Document(st.header, st.items))

(* A save that stamps the header anew after each write *)
ssf_save_restamp(st, force) ==
    IF ~force /\ ~st.dirty THEN Outcome(st, RetNone, None)
    ELSE IF ~HasHeader(st) THEN Outcome(st, Raise("AttributeError"), None)
    ELSE LET w == ssf_write([st EXCEPT
                       !.header.items_mac_b64 = compute_items_mac(st, st.items),
                       !.header.items_mac_alg = ITEMS_MAC_ALG])
         IN Outcome([w.st EXCEPT !.header.created_at = @ + 1], w.ret, w.doc)

(* A save that computes the items MAC only while the header has none *)
ssf_save_first_mac(st, force) ==
    IF ~force /\ ~st.dirty THEN Outcome(st, RetNone, None)
    ELSE IF ~HasHeader(st) THEN Outcome(st, Raise("AttributeError"), None)
    ELSE IF st.header.items_mac_b64 # None THEN ssf_write(st)
    ELSE ssf_write([st EXCEPT !.header.items_mac_b64 = compute_items_mac(st, st.items),
                              !.header.items_mac_alg = ITEMS_MAC_ALG])

(* A save that writes the header as it is, the items MAC not recomputed *)
ssf_save_no_mac(st, force) ==
    IF ~force /\ ~st.dirty THEN Outcome(st, RetNone, None)
    ELSE IF ~HasHeader(st) THEN Outcome(st, Raise("AttributeError"), None)
    ELSE ssf_write(st)

ssf_save(st, force) ==
    IF ~force /\ ~st.dirty THEN Outcome(st, RetNone, None)
    ELSE IF ~HasHeader(st) THEN Outcome(st, Raise("AttributeError"), None)
    ELSE ssf_write([st EXCEPT !.header.items_mac_b64 = compute_items_mac(st, st.items),
                              !.header.items_mac_alg = ITEMS_MAC_ALG])

(* A load that reads the header and leaves the item map empty *)
ssf_load_no_items(st, doc) ==
    IF ~IsJson(doc) THEN Outcome(st, Raise("JSONDecodeError"), None)
    ELSE IF ~(HeaderFields \subseteq DOMAIN doc.header)
    THEN Outcome(st, Raise("ValueError"), None)
    ELSE Outcome([st EXCEPT !.header = doc.header,
                            !.salt = b64str_to_bytes(doc.header.salt_b64),
                            !.items = <<>>,
                            !.dirty = FALSE],
                 RetNone, None)

ssf_load(st, doc) ==
    IF ~IsJson(doc) THEN Outcome(st, Raise("JSONDecodeError"), None)
    ELSE IF ~(HeaderFields \subseteq DOMAIN doc.header)
    THEN Outcome(st, Raise("ValueError"), None)
    ELSE Outcome([st EXCEPT !.header = doc.header,
                            !.salt = b64str_to_bytes(doc.header.salt_b64),
                            !.items = doc.items,
                            !.dirty = FALSE],
                 RetNone, None)

(* A creation whose save is not forced: nothing is dirty, nothing written *)
ssf_create_unforced(st, salt, now) ==
    ssf_save([st EXCEPT !.salt = salt,
                        !.header = [version |-> VERSION,
                                    kdf |-> KDF_ALG,
                                    salt_b64 |-> bytes_to_b64str(salt),
                                    created_at |-> now,
                                    mk_hash |-> master_key_hash(st),
                                    items_mac_b64 |-> None,
                                    items_mac_alg |-> ITEMS_MAC_ALG],
                        !.items = <<>>],
             FALSE)

ssf_create(st, salt, now) ==
    ssf_save([st EXCEPT !.salt = salt,
                        !.header = [version |-> VERSION,
                                    kdf |-> KDF_ALG,
                                    salt_b64 |-> bytes_to_b64str(salt),
                                    created_at |-> now,
                                    mk_hash |-> master_key_hash(st),
                                    items_mac_b64 |-> None,
                                    items_mac_alg |-> ITEMS_MAC_ALG],
                        !.items = <<>>],
             TRUE)

(* A deletion that removes the file and keeps the item map *)
ssf_delete_keeps_items(st) ==
    [st EXCEPT !.header = None, !.salt = NoSalt]

ssf_delete(st) ==
    [st EXCEPT !.items = <<>>, !.header = None, !.salt = NoSalt]

----------------------------------------------------------------------------
(* automatic key exchange mechanism *)

(* _auto_key_exchange, lines 406-407: switch to the new key and store all  *)
(* decrypted values again; the header still carries the old mk_hash.       *)
(* A re-encryption that keeps only the items it could decrypt *)
exchange_reencrypt_dropping(st, new_master_key_str, nonces) ==
    store_all_secrets([st EXCEPT !.mk = b64str_to_bytes(new_master_key_str),
                                 !.items = <<>>],
                      SelectSeq(retrieve_all_secrets(st),
                                LAMBDA kv : kv.name # "A"), nonces)

exchange_reencrypt(st, new_master_key_str, nonces) ==
    store_all_secrets([st EXCEPT !.mk = b64str_to_bytes(new_master_key_str)],
                      retrieve_all_secrets(st), nonces)

exchange_return(w) == Outcome(w.st, RetBool(TRUE), w.doc)

(* An exchange that saves without setting the header's mk_hash *)
exchange_save_keeps_hash(r) ==
    IF IsRaise(r.ret) THEN r
    ELSE exchange_return(ssf_save(r.st, TRUE))

(* _auto_key_exchange, lines 408-411: set mk_hash, save, return True *)
exchange_save(r) ==
    IF IsRaise(r.ret) THEN r
    ELSE exchange_return(
             ssf_save([r.st EXCEPT !.header.mk_hash = master_key_hash(r.st)], TRUE))

auto_key_exchange(st, new_master_key_str, nonces) ==
    exchange_save(
        exchange_reencrypt(delete_secret(st, AUTO_EXCHANGE_OLD_MASTER_KEY).st,
                           new_master_key_str, nonces))

prepare_return(w, new_master_key_str) ==
    IF IsRaise(w.ret) THEN w
    ELSE Outcome(w.st, RetStr(new_master_key_str), w.doc)

(* A preparation that saves while the new key is still the active key *)
prepare_save_new_key(r, current_mk_str, new_master_key_str) ==
    IF IsRaise(r.ret) THEN r
    ELSE prepare_return(ssf_save(r.st, TRUE), new_master_key_str)

(* prepare_auto_key_exchange, lines 388-391 *)
prepare_save(r, current_mk_str, new_master_key_str) ==
    IF IsRaise(r.ret) THEN r
    ELSE prepare_return(
             ssf_save([r.st EXCEPT !.mk = b64str_to_bytes(current_mk_str)], TRUE),
             new_master_key_str)

(* A preparation that encrypts the old key without switching to the new *)
prepare_auto_key_exchange_same_key(st, new_master_key_str, nonce) ==
    prepare_save(
        store_secret(st, AUTO_EXCHANGE_OLD_MASTER_KEY, master_key_str(st), nonce),
        master_key_str(st), new_master_key_str)

(* A preparation that starts the item map afresh for the new key *)
prepare_auto_key_exchange_afresh(st, new_master_key_str, nonce) ==
    prepare_save(
        store_secret([st EXCEPT !.mk = b64str_to_bytes(new_master_key_str),
                                !.items = <<>>],
                     AUTO_EXCHANGE_OLD_MASTER_KEY, master_key_str(st), nonce),
        master_key_str(st), new_master_key_str)

prepare_auto_key_exchange(st, new_master_key_str, nonce) ==
    prepare_save(
        store_secret([st EXCEPT !.mk = b64str_to_bytes(new_master_key_str)],
                     AUTO_EXCHANGE_OLD_MASTER_KEY, master_key_str(st), nonce),
        master_key_str(st), new_master_key_str)

(* An exchange that starts without verifying the items MAC *)
validate_exchange_unverified(st, new_master_keystr, nonces) ==
    auto_key_exchange(st, new_master_keystr, nonces)

(* validate_master_key, lines 270-274: the old key is the active key *)
validate_exchange(st, new_master_keystr, nonces) ==
    IF ~verify_items_mac(st, st.items, st.header.items_mac_b64)
    THEN Outcome(st, Raise("ValueError"), None)
    ELSE auto_key_exchange(st, new_master_keystr, nonces)

(* A validation that discards a reserved entry it cannot use *)
validate_old_key_discarding(st, old_master_key_str, nonces) ==
    IF old_master_key_str = None
    THEN Outcome(delete_secret(st, AUTO_EXCHANGE_OLD_MASTER_KEY).st,
                 RetBool(FALSE), None)
    ELSE IF st.header.mk_hash # hash_bytes(b64str_to_bytes(old_master_key_str))
    THEN Outcome(delete_secret(st, AUTO_EXCHANGE_OLD_MASTER_KEY).st,
                 RetBool(FALSE), None)
    ELSE validate_exchange([st EXCEPT !.mk = b64str_to_bytes(old_master_key_str)],
                           master_key_str(st), nonces)

(* validate_master_key, lines 264-268 *)
validate_old_key(st, old_master_key_str, nonces) ==
    IF old_master_key_str = None
    THEN Outcome(st, RetBool(FALSE), None)
    ELSE IF st.header.mk_hash # hash_bytes(b64str_to_bytes(old_master_key_str))
    THEN Outcome(st, RetBool(FALSE), None)
    ELSE validate_exchange([st EXCEPT !.mk = b64str_to_bytes(old_master_key_str)],
                           master_key_str(st), nonces)

(* A validation that saves again on the hash-match path *)
validate_master_key_resaving(st, nonces) ==
    IF ~HasHeader(st) THEN Outcome(st, Raise("AttributeError"), None)
    ELSE IF st.header.items_mac_b64 = None
    THEN Outcome(st, Raise("ValueError"), None)
    ELSE IF st.header.mk_hash = master_key_hash(st)
    THEN IF ~verify_items_mac(st, st.items, st.header.items_mac_b64)
         THEN Outcome(st, Raise("ValueError"), None)
         ELSE Outcome(st, RetBool(TRUE), ssf_save(st, TRUE).doc)
    ELSE validate_old_key(st, retrieve_secret(st, AUTO_EXCHANGE_OLD_MASTER_KEY),
                          nonces)

(* A validation that looks for the items MAC on the hash-match path only *)
validate_master_key_late_mac(st, nonces) ==
    IF ~HasHeader(st) THEN Outcome(st, Raise("AttributeError"), None)
    ELSE IF st.header.mk_hash = master_key_hash(st)
    THEN IF ~verify_items_mac(st, st.items, st.header.items_mac_b64)
         THEN Outcome(st, Raise("ValueError"), None)
         ELSE Outcome(st, RetBool(TRUE), None)
    ELSE validate_old_key(st, retrieve_secret(st, AUTO_EXCHANGE_OLD_MASTER_KEY),
                          nonces)

validate_master_key(st, nonces) ==
    IF ~HasHeader(st) THEN Outcome(st, Raise("AttributeError"), None)
    ELSE IF st.header.items_mac_b64 = None
    THEN Outcome(st, Raise("ValueError"), None)
    ELSE IF st.header.mk_hash = master_key_hash(st)
    THEN IF ~verify_items_mac(st, st.items, st.header.items_mac_b64)
         THEN Outcome(st, Raise("ValueError"), None)
         ELSE Outcome(st, RetBool(TRUE), None)
    ELSE validate_old_key(st, retrieve_secret(st, AUTO_EXCHANGE_OLD_MASTER_KEY),
                          nonces)

----------------------------------------------------------------------------
(* SecureStore(securestore_file, key_provider): the object after __init__, *)
(* what the constructor returned or raised, and the document it wrote.     *)

NewObject(k) ==
    [alive |-> TRUE, mk |-> k, salt |-> NoSalt, validated |-> FALSE,
     dirty |-> FALSE, header |-> None, items |-> <<>>]

NoObject == [NewObject(NoKey) EXCEPT !.alive = FALSE]

init_result(l, v) ==
    IF IsRaise(v.ret)
    THEN Outcome(NoObject, v.ret, IF v.doc # None THEN v.doc ELSE l.doc)
    ELSE Outcome([v.st EXCEPT !.validated = v.ret.b], v.ret,
                 IF v.doc # None THEN v.doc ELSE l.doc)

init_validate(l, nonces) ==
    IF IsRaise(l.ret) THEN Outcome(NoObject, l.ret, l.doc)
    ELSE init_result(l, validate_master_key(l.st, nonces))

init(doc, k, salt, now, nonces) ==
    init_validate(IF doc # NoFile THEN ssf_load(NewObject(k), doc)
                  ELSE ssf_create(NewObject(k), salt, now),
                  nonces)

----------------------------------------------------------------------------
(* The state machine: callers construct store objects on the one file and  *)
(* call their operations.                                                  *)

Times == {0}
NonceBytes == { Bytes(v) : v \in NonceVals }
NonceChoices == [AllNames -> NonceBytes]

(* What callers pass to store_secret and to store_all_secrets *)
StoreInputs ==
    { [name |-> nm, value |-> v] : nm \in UserNames, v \in Values }
    \cup { [name |-> "A", value |-> v] : v \in LongValues }

SecretDicts ==
    { <<[name |-> "B", value |-> [s |-> "x", len |-> 1]], [name |-> "A", value |-> w]>> :
         w \in {[s |-> "y", len |-> MAX_SECRET_LEN]} \cup LongValues }

(* twice: the step before was the same call on the same object *)
Last(op, i, k, name, val, ret, wrote) ==
    [op |-> op, i |-> i, key |-> k, name |-> name, val |-> val, ret |-> ret,
     wrote |-> wrote, exc |-> FALSE, twice |-> last.op = op /\ last.i = i]

Origin(w, k, old, valid, item, items) ==
    [w |-> w, key |-> k, old |-> old, valid |-> valid, item |-> item,
     items |-> items]

NoOrigin == Origin("none", NoKey, NoKey, FALSE, None, <<>>)

(* The master key a hash was computed from *)
KeyOfHash(h) == CHOOSE k \in Keys : hash_bytes(k) = h

Alive(i) == ss[i].alive

CanMutate(i) == Alive(i) /\ ops[i] < MaxOps

Counted(i) == ops' = [ops EXCEPT ![i] = @ + 1]

(* No save of the object is running *)
NoTmp == [stage |-> "none"]

Init ==
    /\ disk = NoFile
    /\ ss = [i \in Insts |-> NoObject]
    /\ known = 1
    /\ ops = [i \in Insts |-> 0]
    /\ last = [op |-> "none", i |-> 0, key |-> NoKey, name |-> "", val |-> None,
               ret |-> RetNone, wrote |-> FALSE, exc |-> FALSE, twice |-> FALSE]
    /\ origin = NoOrigin
    /\ tmp = [i \in Insts |-> NoTmp]
    /\ left = 0

(* A key provider generates a master key of its own *)
NewKey ==
    /\ known < MaxKeys
    /\ known' = known + 1
    /\ last' = Last("newkey", 0, known + 1, "", None, RetNone, FALSE)
    /\ UNCHANGED <<disk, tmp, left, ss, ops, origin>>

(* SecureStore(securestore_file, key_provider) with the provider's key k *)
(* What a call does to its object and to the file: the object after it,    *)
(* the document its _ssf_save writes (None if it writes nothing), and what *)
(* the history variables record of it.  ctor: the call is the constructor. *)
Applied(i, e) ==
    /\ ss' = [ss EXCEPT ![i] = e.obj]
    /\ disk' = IF e.doc # None THEN e.doc ELSE disk
    /\ origin' = e.origin
    /\ last' = e.last
    /\ UNCHANGED <<tmp, left>>

OpenedEff(i, k, r) ==
    [obj |-> r.st, doc |-> r.doc, ctor |-> TRUE,
     origin |-> IF r.doc = None THEN origin
                ELSE IF disk = NoFile
                     THEN Origin("create", k, NoKey, TRUE, None, r.doc.items)
                     ELSE Origin("rotate", k, KeyOfHash(disk.header.mk_hash),
                                 TRUE, None, r.doc.items),
     last |-> Last("open", i, k,
                   IF disk = NoFile THEN "create"
                   ELSE IF r.doc # None THEN "rotate" ELSE "load",
                   None, r.ret, r.doc # None)]

Opened(i, k, r) == Applied(i, OpenedEff(i, k, r))

Open(i) ==
    /\ ~Alive(i)
    /\ \E k \in 1..known, salt \in SaltVals, now \in Times, nn \in NonceChoices :
         Opened(i, k, init(disk, k, salt, now, nn))
    /\ ops' = [ops EXCEPT ![i] = 0]
    /\ UNCHANGED known

(* A call on the object that runs no _ssf_save: it writes no document *)
Called(i, op, name, val, r) ==
    /\ ss' = [ss EXCEPT ![i] = r.st]
    /\ disk' = IF r.doc # None THEN r.doc ELSE disk
    /\ last' = Last(op, i, ss[i].mk, name, val, r.ret, r.doc # None)

(* The caller drops the object without saving *)
Close(i) ==
    /\ Alive(i)
    /\ ss' = [ss EXCEPT ![i] = NoObject]
    /\ last' = Last("close", i, ss[i].mk, "", None, RetNone, FALSE)
    /\ UNCHANGED <<disk, tmp, left, known, ops, origin>>

StoreSecret(i) ==
    /\ CanMutate(i)
    /\ \E in \in StoreInputs, nonce \in NonceBytes :
         Called(i, "store_secret", in.name, in.value,
                store_secret(ss[i], in.name, in.value, nonce))
    /\ Counted(i)
    /\ UNCHANGED <<tmp, left, known, origin>>

Retrieved(i, name, v) ==
    last' = Last("retrieve_secret", i, ss[i].mk, name, v,
                 IF v = None THEN RetNone ELSE RetStr(v), FALSE)

RetrieveSecret(i) ==
    /\ Alive(i)
    /\ \E name \in AllNames :
         Retrieved(i, name, retrieve_secret(ss[i], name))
    /\ UNCHANGED <<disk, tmp, left, ss, known, ops, origin>>

DeleteSecret(i) ==
    /\ CanMutate(i)
    /\ \E name \in UserNames :
         Called(i, "delete_secret", name, None, delete_secret(ss[i], name))
    /\ Counted(i)
    /\ UNCHANGED <<tmp, left, known, origin>>

StoreAllSecrets(i) ==
    /\ CanMutate(i)
    /\ \E d \in SecretDicts, nn \in NonceChoices :
         Called(i, "store_all_secrets", "", None, store_all_secrets(ss[i], d, nn))
    /\ Counted(i)
    /\ UNCHANGED <<tmp, left, known, origin>>

RetrieveAllSecrets(i) ==
    /\ Alive(i)
    /\ last' = Last("retrieve_all_secrets", i, ss[i].mk, "", None,
                    [t |-> "dict", d |-> retrieve_all_secrets(ss[i])], FALSE)
    /\ UNCHANGED <<disk, tmp, left, ss, known, ops, origin>>

(* The item the caller stored by the step before this one, if any *)
JustStored(i) ==
    IF last.op = "store_secret" /\ last.i = i /\ ~IsRaise(last.ret)
    THEN [name |-> last.name, value |-> last.val]
    ELSE None

(* A call that may write the file: op is the call, w the kind of write *)
WrittenEff(i, op, w, old, after, r) ==
    [obj |-> after, doc |-> r.doc, ctor |-> FALSE,
     origin |-> IF r.doc # None
                THEN Origin(w, r.st.mk, old, ss[i].validated, JustStored(i),
                            r.doc.items)
                ELSE origin,
     last |-> Last(op, i, ss[i].mk, "", None, r.ret, r.doc # None)]

Written(i, op, w, old, after, r) == Applied(i, WrittenEff(i, op, w, old, after, r))

(* _ssf_save() as the callers use it: written only if dirty *)
Saved(i, r) == Written(i, "save", "save", NoKey, r.st, r)

Save(i) ==
    /\ Alive(i)
    /\ Saved(i, ssf_save(ss[i], FALSE))
    /\ UNCHANGED <<known, ops>>

(* __exit__ of a "with SecureStore(...)" block left by an exception or not *)
exit(st, exc) ==
    IF st.dirty THEN ssf_save(st, FALSE) ELSE Outcome(st, RetNone, None)

ExitedEff(i, exc, r) ==
    [obj |-> NoObject, doc |-> r.doc, ctor |-> FALSE,
     origin |-> IF r.doc # None
                THEN Origin("save", r.st.mk, NoKey, ss[i].validated, JustStored(i),
                            r.doc.items)
                ELSE origin,
     last |-> [Last("exit", i, ss[i].mk, "", None, r.ret, r.doc # None)
                 EXCEPT !.exc = exc]]

Exited(i, exc, r) == Applied(i, ExitedEff(i, exc, r))

Exit(i) ==
    /\ Alive(i)
    /\ \E exc \in BOOLEAN : Exited(i, exc, exit(ss[i], exc))
    /\ UNCHANGED <<known, ops>>

(* generate_key_str(): a key no provider has generated before *)
generate_key_str(n) == bytes_to_b64str(n + 1)

Prepared(i, r) == Written(i, "prepare", "prepare", NoKey, r.st, r)

Prepare(i) ==
    /\ CanMutate(i)
    /\ known < MaxKeys
    /\ \E nonce \in NonceBytes :
         Prepared(i, prepare_auto_key_exchange(ss[i], generate_key_str(known), nonce))
    /\ known' = known + 1
    /\ Counted(i)

Validated(i, r) ==
    Written(i, "validate", "rotate",
            IF r.doc # None THEN KeyOfHash(ss[i].header.mk_hash) ELSE NoKey, r.st, r)

Validate(i) ==
    /\ Alive(i)
    /\ \E nn \in NonceChoices : Validated(i, validate_master_key(ss[i], nn))
    /\ UNCHANGED <<known, ops>>

DeleteStore(i) ==
    /\ Alive(i)
    /\ ss' = [ss EXCEPT ![i] = ssf_delete(ss[i])]
    /\ disk' = NoFile
    /\ origin' = NoOrigin
    /\ UNCHANGED <<tmp, left>>
    /\ last' = Last("delete_store", i, ss[i].mk, "", [items |-> ss[i].items],
                    RetNone, disk # NoFile)
    /\ UNCHANGED <<known, ops>>

Step(i) ==
    \/ Open(i)
    \/ Close(i)
    \/ StoreSecret(i)
    \/ RetrieveSecret(i)
    \/ DeleteSecret(i)
    \/ StoreAllSecrets(i)
    \/ RetrieveAllSecrets(i)
    \/ Save(i)
    \/ Exit(i)
    \/ Prepare(i)
    \/ Validate(i)
    \/ DeleteStore(i)

(* One caller at a time holds a store object (single-writer use) *)
Next == NewKey \/ Step(1)

Spec == Init /\ [][Next]_vars

----------------------------------------------------------------------------
(* Tampering.  TamperFile: somebody edits the item map of the persisted    *)
(* document and leaves the header, with items_mac_b64, as saved.           *)
(* TamperItem: the nonce or the ciphertext of one entry of an object's     *)
(* item map gets bits flipped, as                                          *)
(* test_tampered_data_causes_decryption_failure does.                      *)

ForeignEntry(name) ==
    [name |-> name,
     n |-> bytes_to_b64str(Bytes(1)),
     ct |-> bytes_to_b64str(
              AESGCM_encrypt([hkdf |-> "enc", ikm |-> NoKey, salt |-> NoSalt],
                             Bytes(1), [s |-> "x", len |-> 1],
                             [version |-> VERSION, salt_b64 |-> bytes_to_b64str(NoSalt),
                              mk_hash |-> hash_bytes(NoKey), name |-> name]))]

FlipEntry(items, name, field) ==
    [j \in 1..Len(items) |->
        IF items[j].name # name THEN items[j]
        ELSE IF field = ITEMNAME_NONCE
             THEN [items[j] EXCEPT !.n = bytes_to_b64str(FlipBits(b64str_to_bytes(@)))]
             ELSE [items[j] EXCEPT !.ct = bytes_to_b64str(FlipBits(b64str_to_bytes(@)))]]

TamperedItems(items) ==
    { DictPop(items, nm) : nm \in DictNames(items) }
    \cup { FlipEntry(items, nm, f) :
             nm \in DictNames(items), f \in {ITEMNAME_NONCE, ITEMNAME_CIPHERTEXT} }
    \cup { Append(items, ForeignEntry(nm)) : nm \in UserNames \ DictNames(items) }

TamperFile ==
    /\ disk # NoFile
    /\ origin.w # "tamper"
    /\ \E items \in TamperedItems(disk.items) :
         disk' = [disk EXCEPT !.items = items]
    /\ origin' = [origin EXCEPT !.w = "tamper"]
    /\ last' = Last("tamper_file", 0, NoKey, "", None, RetNone, TRUE)
    /\ UNCHANGED <<ss, known, ops, tmp, left>>

TamperItem(i) ==
    /\ CanMutate(i)
    /\ \E nm \in DictNames(ss[i].items), f \in {ITEMNAME_NONCE, ITEMNAME_CIPHERTEXT} :
         /\ ss' = [ss EXCEPT ![i].items = FlipEntry(@, nm, f)]
         /\ last' = Last("tamper_item", i, ss[i].mk, nm, None, RetNone, FALSE)
    /\ Counted(i)
    /\ UNCHANGED <<disk, tmp, left, known, origin>>

(* Once the document is tampered with, the model follows the attempts to    *)
(* load it; a rotation that goes through writes a new document.            *)
Reload == Open(1) \/ Close(1)

NextTamperFile ==
    \/ origin.w # "tamper" /\ Next
    \/ TamperFile
    \/ origin.w = "tamper" /\ Reload

SpecTamperFile == Init /\ [][NextTamperFile]_vars

NextTamperItem == Next \/ TamperItem(1)

SpecTamperItem == Init /\ [][NextTamperItem]_vars

(* TamperHeader: somebody edits the header of the persisted document and  *)
(* leaves the items: items_mac_alg is set to another algorithm name or to  *)
(* null, items_mac_b64 is set to null, or one field is taken out.          *)
OtherMacAlgs == {"HMAC-MD5", "null"}

DropField(header, f) == [g \in DOMAIN header \ {f} |-> header[g]]

TamperedHeaders(header) ==
    { [header EXCEPT !.items_mac_alg = a] : a \in OtherMacAlgs }
    \cup { DropField(header, f) : f \in DOMAIN header }
    \cup { [header EXCEPT !.items_mac_b64 = None] }

HeaderTampered == origin.w \in {"alg", "field", "nomac"}

TamperHeader ==
    /\ disk # NoFile
    /\ ~HeaderTampered
    /\ \E h \in TamperedHeaders(disk.header) :
         /\ disk' = [disk EXCEPT !.header = h]
         /\ origin' = [origin EXCEPT
                         !.w = IF DOMAIN h # DOMAIN disk.header THEN "field"
                               ELSE IF h.items_mac_b64 = None THEN "nomac"
                               ELSE "alg"]
    /\ last' = Last("tamper_header", 0, NoKey, "", None, RetNone, TRUE)
    /\ UNCHANGED <<ss, known, ops, tmp, left>>

NextTamperHeader ==
    \/ ~HeaderTampered /\ Next
    \/ TamperHeader
    \/ HeaderTampered /\ Reload

SpecTamperHeader == Init /\ [][NextTamperHeader]_vars

----------------------------------------------------------------------------
(* The steps of one _ssf_save.  A call that writes the file serializes the *)
(* document, creates the temporary file, writes it, and renames it over    *)
(* the target; an OSError or the end of the process may come at each step. *)
(* tmp[i] is the temporary file of the save object i is running, left the  *)
(* number of temporary files no running save owns any more.                *)

MaxLeft == 1

Idle(i) == tmp[i].stage = "none"

(* A save that writes into the target itself *)
save_path_target(i) == "target"

(* tmp = securestore_file.with_suffix(".tmp-<uuid>"): the file written *)
save_path(i) == "tmp"

(* The call starts: what it does without _ssf_save, or up to the creation  *)
(* of the temporary file by open_secure_file                               *)
Begun(i, e) ==
    IF e.doc = None THEN Applied(i, e)
    ELSE /\ ss' = [ss EXCEPT ![i] = e.obj]
         /\ tmp' = [tmp EXCEPT ![i] = [stage |-> "open", e |-> e]]
         /\ UNCHANGED <<disk, origin, last, left>>

OpenBegin(i) ==
    /\ ~Alive(i) /\ Idle(i)
    /\ \E k \in 1..known, salt \in SaltVals, now \in Times, nn \in NonceChoices :
         Begun(i, OpenedEff(i, k, init(disk, k, salt, now, nn)))
    /\ ops' = [ops EXCEPT ![i] = 0]
    /\ UNCHANGED known

SaveBegin(i) ==
    /\ Alive(i) /\ Idle(i)
    /\ Begun(i, WrittenEff(i, "save", "save", NoKey, ssf_save(ss[i], FALSE).st,
                           ssf_save(ss[i], FALSE)))
    /\ UNCHANGED <<known, ops>>

ExitBegin(i) ==
    /\ Alive(i) /\ Idle(i)
    /\ \E exc \in BOOLEAN : Begun(i, ExitedEff(i, exc, exit(ss[i], exc)))
    /\ UNCHANGED <<known, ops>>

PrepareBegun(i, r) == Begun(i, WrittenEff(i, "prepare", "prepare", NoKey, r.st, r))

PrepareBegin(i) ==
    /\ CanMutate(i) /\ Idle(i)
    /\ known < MaxKeys
    /\ \E nonce \in NonceBytes :
         PrepareBegun(i, prepare_auto_key_exchange(ss[i], generate_key_str(known),
                                                   nonce))
    /\ known' = known + 1
    /\ Counted(i)

ValidateBegun(i, r) ==
    Begun(i, WrittenEff(i, "validate", "rotate",
                        IF r.doc # None THEN KeyOfHash(ss[i].header.mk_hash)
                        ELSE NoKey, r.st, r))

ValidateBegin(i) ==
    /\ Alive(i) /\ Idle(i)
    /\ \E nn \in NonceChoices : ValidateBegun(i, validate_master_key(ss[i], nn))
    /\ UNCHANGED <<known, ops>>

(* f.write(data); f.flush(); os.fsync(): first a part, then all of it *)
SaveWrite(i) ==
    /\ tmp[i].stage \in {"open", "part"}
    /\ tmp' = [tmp EXCEPT ![i].stage = IF @ = "open" THEN "part" ELSE "full"]
    /\ disk' = IF save_path(i) = "target"
               THEN IF tmp[i].stage = "open" THEN Partial(tmp[i].e.doc)
                    ELSE tmp[i].e.doc
               ELSE disk
    /\ UNCHANGED <<ss, known, ops, last, origin, left>>

(* os.replace(tmp, securestore_file), and the call returns; last.val       *)
(* records what the rename replaced                                        *)
SaveReplace(i) ==
    /\ tmp[i].stage = "full"
    /\ disk' = tmp[i].e.doc
    /\ origin' = tmp[i].e.origin
    /\ last' = [tmp[i].e.last EXCEPT !.val = disk]
    /\ tmp' = [tmp EXCEPT ![i] = NoTmp]
    /\ UNCHANGED <<ss, known, ops, left>>

(* f.write, os.fsync or os.replace raises OSError: _ssf_save has no        *)
(* handler, the exception reaches the caller and the temporary file stays. *)
(* A constructor that raises yields no object.                             *)
SaveFail(i) ==
    /\ ~Idle(i) /\ left < MaxLeft
    /\ left' = left + 1
    /\ tmp' = [tmp EXCEPT ![i] = NoTmp]
    /\ ss' = IF tmp[i].e.ctor THEN [ss EXCEPT ![i] = NoObject] ELSE ss
    /\ last' = [tmp[i].e.last EXCEPT !.ret = Raise("OSError"), !.wrote = FALSE,
                                     !.val = tmp[i].stage]
    /\ UNCHANGED <<disk, known, ops, origin>>

(* The process ends while its save is running *)
Crash(i) ==
    /\ ~Idle(i) /\ left < MaxLeft
    /\ left' = left + 1
    /\ tmp' = [tmp EXCEPT ![i] = NoTmp]
    /\ ss' = [ss EXCEPT ![i] = NoObject]
    /\ last' = Last("crash", i, tmp[i].e.last.key, tmp[i].stage, tmp[i].e.doc,
                    RetNone, FALSE)
    /\ UNCHANGED <<disk, known, ops, origin>>

(* The calls that run no save, between the saves of the object *)
Between(i) ==
    /\ Idle(i)
    /\ \/ Close(i)
       \/ StoreSecret(i)
       \/ DeleteSecret(i)

StepSave(i) ==
    \/ OpenBegin(i)
    \/ SaveBegin(i)
    \/ ExitBegin(i)
    \/ PrepareBegin(i)
    \/ ValidateBegin(i)
    \/ SaveWrite(i)
    \/ SaveReplace(i)
    \/ SaveFail(i)
    \/ Crash(i)
    \/ Between(i)

NextSave == NewKey \/ StepSave(1)

SpecSave == Init /\ [][NextSave]_vars

(* Several processes, each with an object of its own on the one file,      *)
(* without any exclusion between them.  Each stores a value of its own     *)
(* under one of the names, and saves.                                      *)
RaceValue(i) == IF i % 2 = 1 THEN [s |-> "x", len |-> 1]
                ELSE [s |-> "y", len |-> MAX_SECRET_LEN]

RaceStore(i) ==
    /\ CanMutate(i) /\ Idle(i)
    /\ \E name \in UserNames :
         Called(i, "store_secret", name, RaceValue(i),
                store_secret(ss[i], name, RaceValue(i), Bytes(1)))
    /\ Counted(i)
    /\ UNCHANGED <<tmp, left, known, origin>>

RaceClose(i) == Idle(i) /\ Close(i)

Race(i) ==
    \/ OpenBegin(i)
    \/ RaceStore(i)
    \/ RaceClose(i)
    \/ SaveBegin(i)
    \/ SaveWrite(i)
    \/ SaveReplace(i)

NextRace == \E i \in Insts : Race(i)

SpecRace == Init /\ [][NextRace]_vars

(* Several processes around a rotation: each opens the file once, when it  *)
(* likes, and holds its object; it stores, saves, and prepares a rotation. *)
(* An object opened before the rotation outlives it.                       *)
Stale(i) ==
    \/ Open(i)
    \/ RaceStore(i)
    \/ Save(i)
    \/ Prepare(i)

NextStale == \E i \in Insts : Stale(i)

SpecStale == Init /\ [][NextStale]_vars

----------------------------------------------------------------------------
(* Properties.                                                             *)

(* What the holder of master key k has in memory after loading doc *)
Loaded(doc, k) == ssf_load(NewObject(k), doc).st

(* C1: after prepare_auto_key_exchange(K2) on a store under K1 and a       *)
(* reopening with K2, the rotation keeps every user item: each name that   *)
(* retrieved a value under K1 before retrieves the same value after.       *)
C1_RotationKeepsSecrets ==
    [][ (last'.op = "open" /\ last'.name = "rotate" /\ last'.ret = RetBool(TRUE))
        => \A nm \in UserNames :
              retrieve_secret(Loaded(disk, origin'.old), nm) # None
              => retrieve_secret(ss'[last'.i], nm)
                   = retrieve_secret(Loaded(disk, origin'.old), nm) ]_vars

(* C2: once a rotation from K1 to K2 has written the file, opening it with *)
(* K2 validates to true and opening it with the stale K1 validates to      *)
(* false without raising.                                                  *)
C2_StaleKeyAfterRotation ==
    (origin.w = "rotate" /\ last.op = "open" /\ last.name = "load")
    => /\ last.key = origin.key => last.ret = RetBool(TRUE)
       /\ last.key = origin.old => last.ret = RetBool(FALSE)

C2_Witness ==
    /\ origin.w = "rotate" /\ last.op = "open" /\ last.name = "load"
    /\ last.key = origin.old /\ last.ret = RetBool(FALSE)

Touches(l, nm) ==
    \/ l.op \in {"store_secret", "delete_secret"} /\ l.name = nm
    \/ l.op \in {"store_all_secrets", "delete_store", "close", "open"}

SameEpoch(a, b) ==
    /\ a.alive /\ b.alive /\ a.mk = b.mk /\ a.salt = b.salt
    /\ HasHeader(a) /\ HasHeader(b)
    /\ a.header.mk_hash = b.header.mk_hash

(* C4: in one object, retrieve_secret(n) after a store_secret(n, v) that   *)
(* returned gives v, a value of at most 1000 bytes is accepted by a store  *)
(* that has its header, and the value keeps being returned over every call *)
(* that neither stores nor deletes n nor changes the key.                  *)
C4_InMemoryRoundTrip ==
    [][ \A i \in Insts :
          /\ (last'.op = "store_secret" /\ last'.i = i /\ ~IsRaise(last'.ret))
             => retrieve_secret(ss'[i], last'.name) = last'.val
          /\ (last'.op = "store_secret" /\ last'.i = i /\ HasHeader(ss[i])
                /\ Utf8Len(last'.val) <= MAX_SECRET_LEN)
             => ~IsRaise(last'.ret)
          /\ \A nm \in UserNames :
               (SameEpoch(ss[i], ss'[i]) /\ ~Touches(last', nm)
                  /\ retrieve_secret(ss[i], nm) # None)
               => retrieve_secret(ss'[i], nm) = retrieve_secret(ss[i], nm) ]_vars

C4_Witness ==
    /\ last.op = "store_secret" /\ ~IsRaise(last.ret)
    /\ last.val.len = MAX_SECRET_LEN
    /\ retrieve_secret(ss[last.i], last.name) = last.val

(* C8: opening a path with no file creates one whose header carries the    *)
(* hash of the supplied key, whose item map is empty and whose items MAC   *)
(* is the MAC of the empty item set under that key; the key validates.     *)
C8_FreshStore ==
    (last.op = "open" /\ last.name = "create")
    => /\ disk # NoFile
       /\ disk.header.mk_hash = hash_bytes(last.key)
       /\ disk.items = <<>>
       /\ disk.header.items_mac_b64 = compute_items_mac(Loaded(disk, last.key), <<>>)
       /\ last.ret = RetBool(TRUE)
       /\ ss[last.i].validated

C8_Witness ==
    /\ last.op = "open" /\ last.name = "create" /\ last.ret = RetBool(TRUE)
    /\ disk # NoFile /\ disk.items = <<>>

(* C9: every persisted document, and the header of every object that has   *)
(* one, carries an items MAC.                                              *)
C9_ItemsMacPresent ==
    /\ disk # NoFile => disk.header.items_mac_b64 # None
    /\ \A i \in Insts :
         (Alive(i) /\ HasHeader(ss[i])) => ss[i].header.items_mac_b64 # None

C9_Witness ==
    /\ last.op = "save" /\ last.wrote /\ disk # NoFile
    /\ disk.items # <<>> /\ disk.header.items_mac_b64 # None

(* The recovery of validate_master_key finds no usable old key *)
NoOldKey(st, old_master_key_str) ==
    \/ old_master_key_str = None
    \/ hash_bytes(b64str_to_bytes(old_master_key_str)) # st.header.mk_hash

WrongKey(st) ==
    /\ st.header.mk_hash # master_key_hash(st)
    /\ NoOldKey(st, retrieve_secret(st, AUTO_EXCHANGE_OLD_MASTER_KEY))

(* C5: opening a store with a key whose hash differs from mk_hash, the     *)
(* reserved item being absent, undecryptable or of another hash, validates *)
(* to false without raising, and retrieve_secret of every stored item      *)
(* returns None.                                                           *)
C5_WrongKeyIsBoolean ==
    (last.op = "open" /\ last.name = "load" /\ WrongKey(Loaded(disk, last.key)))
    => /\ last.ret = RetBool(FALSE)
       /\ \A nm \in DictNames(disk.items) :
            retrieve_secret(Loaded(disk, last.key), nm) = None

(* C10: in every persisted document every user item decrypts under the key *)
(* whose hash is the header's mk_hash, with associated data that binds     *)
(* that hash.                                                              *)
C10_KeyEpoch ==
    disk # NoFile
    => \A nm \in DictNames(disk.items) \cap UserNames :
         retrieve_secret(Loaded(disk, KeyOfHash(disk.header.mk_hash)), nm) # None

(* C6: when the item map of the persisted document was changed and the     *)
(* header left as saved, opening it with the key whose hash is mk_hash     *)
(* raises the integrity error of validate_master_key.                      *)
C6_FileTamperDetected ==
    (last.op = "open" /\ last.name = "load" /\ origin.w = "tamper"
       /\ disk.items # origin.items
       /\ hash_bytes(last.key) = disk.header.mk_hash)
    => last.ret = Raise("ValueError")

C6_Witness ==
    /\ last.op = "open" /\ last.name = "load" /\ origin.w = "tamper"
    /\ disk.items # origin.items /\ origin.valid
    /\ hash_bytes(last.key) = disk.header.mk_hash
    /\ last.ret = Raise("ValueError")

(* C7: after the nonce or the ciphertext of one item of an object was      *)
(* altered, retrieve_secret of that item returns None if it returned a     *)
(* value before, and retrieve_secret of every other item returns what it   *)
(* returned before.                                                        *)
C7_ItemTamperIsLocal ==
    [][ last'.op = "tamper_item"
        => /\ retrieve_secret(ss[last'.i], last'.name) # None
              => retrieve_secret(ss'[last'.i], last'.name) = None
           /\ \A nm \in AllNames \ {last'.name} :
                retrieve_secret(ss'[last'.i], nm) = retrieve_secret(ss[last'.i], nm)
      ]_vars

C7_Witness ==
    /\ last.op = "tamper_item"
    /\ DictGet(ss[last.i].items, last.name).ct.b64.v.k = key(ss[last.i], "enc")
    /\ DictGet(ss[last.i].items, last.name).ct.b64.v.ad = aad(ss[last.i], last.name)
    /\ retrieve_secret(ss[last.i], last.name) = None
    /\ \E nm \in UserNames \ {last.name} : retrieve_secret(ss[last.i], nm) # None

(* C15: when a "with SecureStore(...)" block is left by an exception, the  *)
(* exit does not write the file: the persisted document stays as it was.   *)
C15_ExitOnErrorKeepsFile ==
    [][ (last'.op = "exit" /\ last'.exc) => (disk' = disk /\ ~last'.wrote) ]_vars

(* A block was left right after a call that changed the item map *)
Mutated(i) ==
    /\ last.i = i /\ ~IsRaise(last.ret)
    /\ last.op \in {"store_secret", "delete_secret", "store_all_secrets"}

(* C16: when a "with SecureStore(...)" block ends without an exception,    *)
(* the file is rewritten with the in-memory items if the block mutated the *)
(* store, and is not written at all if the block made no mutating call.    *)
C16_ExitOnSuccess ==
    [][ (last'.op = "exit" /\ ~last'.exc)
        => /\ Mutated(last'.i)
              => (last'.wrote /\ disk' # NoFile /\ disk'.items = ss[last'.i].items)
           /\ ops[last'.i] = 0 => (~last'.wrote /\ disk' = disk) ]_vars

(* C17: store_secret, store_all_secrets, delete_secret, retrieve_secret    *)
(* and retrieve_all_secrets leave the persisted document alone; a          *)
(* store_secret that returns and a delete_secret change nothing of the     *)
(* object but its item map and set its dirty flag.                         *)
C17_PersistenceIsExplicit ==
    [][ /\ last'.op \in {"store_secret", "store_all_secrets", "delete_secret",
                         "retrieve_secret", "retrieve_all_secrets"}
           => (disk' = disk /\ ~last'.wrote)
        /\ last'.op \in {"retrieve_secret", "retrieve_all_secrets"} => ss' = ss
        /\ (\/ last'.op = "store_secret" /\ ~IsRaise(last'.ret)
            \/ last'.op = "delete_secret")
           => ss'[last'.i] = [ss[last'.i] EXCEPT !.items = ss'[last'.i].items,
                                                 !.dirty = TRUE] ]_vars

C17_Witness ==
    /\ last.op = "delete_secret" /\ last.ret = RetBool(TRUE)
    /\ disk # NoFile /\ DictHas(disk.items, last.name)
    /\ ~DictHas(ss[last.i].items, last.name) /\ ss[last.i].dirty

(* C18: a save right after a save of the same object, nothing called in    *)
(* between, leaves the file content as the first save wrote it.            *)
C18_IdempotentSave ==
    [][ (last'.op = "save" /\ last'.twice) => disk' = disk ]_vars

C18_Witness ==
    /\ last.op = "save" /\ last.twice /\ last.wrote
    /\ disk # NoFile /\ disk.items # <<>>

(* C20: store_secret of a value longer than 1000 bytes raises ValueError   *)
(* and leaves the item map, the dirty flag and the file as they were; a    *)
(* value of exactly 1000 bytes is accepted.                                *)
C20_OverLongRejected ==
    [][ /\ (last'.op = "store_secret" /\ Utf8Len(last'.val) > MAX_SECRET_LEN)
           => /\ last'.ret = Raise("ValueError")
              /\ ss' = ss
              /\ disk' = disk /\ ~last'.wrote
        /\ (last'.op = "store_secret" /\ Utf8Len(last'.val) = MAX_SECRET_LEN
              /\ HasHeader(ss[last'.i]))
           => /\ ~IsRaise(last'.ret)
              /\ DictHas(ss'[last'.i].items, last'.name) ]_vars

C20_Witness ==
    /\ last.op = "store_secret" /\ last.val.len = MAX_SECRET_LEN + 1
    /\ last.ret = Raise("ValueError")
    /\ ~ss[last.i].dirty /\ ss[last.i].items = <<>>

(* The plaintext an entry of a document was encrypted from *)
PlainOf(entry) == b64str_to_bytes(entry.ct).v.pt

(* The master key an entry of a document was encrypted under *)
KeyOf(entry) == b64str_to_bytes(entry.ct).v.k.ikm

IsKeyStr(value) == "b64" \in DOMAIN value

(* C12: in every persisted document a master key occurs only as the        *)
(* plaintext under the ciphertext of the reserved item, encrypted under    *)
(* another key than itself, and the document a rotation wrote has no       *)
(* reserved item.                                                          *)
C12_OldKeyOnlyEncrypted ==
    disk # NoFile
    => /\ \A j \in 1..Len(disk.items) :
            IsKeyStr(PlainOf(disk.items[j]))
            => /\ disk.items[j].name = AUTO_EXCHANGE_OLD_MASTER_KEY
               /\ KeyOf(disk.items[j]) # b64str_to_bytes(PlainOf(disk.items[j]))
       /\ origin.w = "rotate"
            => ~DictHas(disk.items, AUTO_EXCHANGE_OLD_MASTER_KEY)

C12_Witness ==
    /\ disk # NoFile /\ origin.w = "prepare"
    /\ DictHas(disk.items, AUTO_EXCHANGE_OLD_MASTER_KEY)
    /\ hash_bytes(b64str_to_bytes(
           PlainOf(DictGet(disk.items, AUTO_EXCHANGE_OLD_MASTER_KEY))))
         = disk.header.mk_hash
    /\ KeyOf(DictGet(disk.items, AUTO_EXCHANGE_OLD_MASTER_KEY)) = known
    /\ DictNames(disk.items) \cap UserNames # {}

C14_TempRemoved ==
    [][ (last' # last /\ last'.ret = Raise("OSError")) => left' = left ]_vars

(* The document is a complete document of master key k: its header names   *)
(* the hash of k, its items MAC verifies under k, and each of its user     *)
(* items is retrieved under k.                                             *)
UnderKey(doc, k) ==
    /\ doc.header.mk_hash = hash_bytes(k)
    /\ verify_items_mac(Loaded(doc, k), doc.items, doc.header.items_mac_b64)
    /\ \A nm \in DictNames(doc.items) \cap UserNames :
          retrieve_secret(Loaded(doc, k), nm) # None

PreparedDoc(doc, k_old) ==
    UnderKey(doc, k_old) /\ DictHas(doc.items, AUTO_EXCHANGE_OLD_MASTER_KEY)

RotatedDoc(doc, k_new) ==
    UnderKey(doc, k_new) /\ ~DictHas(doc.items, AUTO_EXCHANGE_OLD_MASTER_KEY)

(* C11: at every step of prepare_auto_key_exchange and of the rotation,    *)
(* also when the process ends inside one of their saves, the persisted     *)
(* document is whole: what prepare wrote is the complete prepared document *)
(* of K_old, what the rotation wrote is the complete rotated document of   *)
(* K_new, and while either save is running the document of before stays.   *)
C11_CrashAtomicRotation ==
    /\ disk = NoFile \/ IsJson(disk)
    /\ (IsJson(disk) /\ origin.w = "prepare") => PreparedDoc(disk, origin.key)
    /\ (IsJson(disk) /\ origin.w = "rotate") => RotatedDoc(disk, origin.key)

(* Process i renames its temporary file over the target *)
Renamed(i) == tmp[i].stage = "full" /\ tmp'[i].stage = "none" /\ left' = left

(* C19: when processes race on one file, the rename of a process makes     *)
(* the file exactly the complete document of that process: the header and  *)
(* the items of its own in-memory copy, and whatever another process has   *)
(* in its copy and this one has not is absent from the file.               *)
C19_LastRenameWins ==
    [][ \A i \in Insts :
          Renamed(i)
          => /\ disk' = tmp[i].e.doc /\ IsJson(disk')
             /\ Alive(i) => disk' = Document(ss[i].header, ss[i].items)
             /\ \A j \in Insts \ {i}, nm \in AllNames :
                   (Alive(i) /\ Alive(j)
                      /\ DictGet(ss[j].items, nm) # DictGet(ss[i].items, nm))
                   => DictGet(disk'.items, nm) # DictGet(ss[j].items, nm) ]_vars

(* Two processes each stored an item into their copy, the file held the    *)
(* document of the one, and the rename of the other replaced it.           *)
C19_Witness ==
    \E i, j \in Insts :
       /\ i # j /\ Alive(i) /\ Alive(j) /\ Idle(i) /\ Idle(j)
       /\ last.op = "save" /\ last.i = i /\ last.wrote
       /\ IsJson(last.val) /\ last.val.items = ss[j].items
       /\ disk.items = ss[i].items
       /\ DictNames(ss[i].items) \ DictNames(ss[j].items) # {}
       /\ DictNames(ss[j].items) \ DictNames(ss[i].items) # {}
       /\ DictNames(ss[j].items) \cap DictNames(disk.items) = {}

(* C21: after the deletion of the store the item map of the object is      *)
(* empty and no file exists, whether the object had unsaved changes or not. *)
C21_DeleteStore ==
    [][ last'.op = "delete_store"
        => /\ ss'[last'.i].items = <<>>
           /\ retrieve_all_secrets(ss'[last'.i]) = <<>>
           /\ disk' = NoFile ]_vars

(* A store that existed as a file was deleted by an object that had        *)
(* changed its map and held two items; last.val has the map of before.     *)
C21_Witness ==
    /\ last.op = "delete_store" /\ last.wrote /\ disk = NoFile
    /\ ss[last.i].dirty /\ ss[last.i].items = <<>>
    /\ UserNames \subseteq DictNames(last.val.items)

(* C22: delete_secret(n) returns true exactly when n was in the item map;  *)
(* afterwards retrieve_secret(n) returns None, and every other item is in  *)
(* the map as before and retrieves what it retrieved before.               *)
C22_DeleteSecret ==
    [][ last'.op = "delete_secret"
        => /\ last'.ret = RetBool(DictHas(ss[last'.i].items, last'.name))
           /\ retrieve_secret(ss'[last'.i], last'.name) = None
           /\ \A m \in AllNames \ {last'.name} :
                 /\ DictGet(ss'[last'.i].items, m) = DictGet(ss[last'.i].items, m)
                 /\ retrieve_secret(ss'[last'.i], m)
                      = retrieve_secret(ss[last'.i], m) ]_vars

(* An item was deleted from a map of two, and the other one is retrieved *)
C22_Witness ==
    /\ last.op = "delete_secret" /\ last.ret = RetBool(TRUE)
    /\ \E m \in UserNames \ {last.name} :
          /\ DictHas(ss[last.i].items, m)
          /\ retrieve_secret(ss[last.i], m) # None

(* C23: opening a store whose persisted header names another items-MAC     *)
(* algorithm than HMAC-SHA256, or none, raises the integrity error, also   *)
(* when the MAC value verifies under the key; it never validates to true.  *)
C23_DowngradeIsFatal ==
    (/\ last.op = "open" /\ last.name = "load" /\ origin.w = "alg"
     /\ disk.header.items_mac_alg # ITEMS_MAC_ALG)
    => last.ret = Raise("ValueError")

(* C24: loading a document whose header lacks one of the seven fields      *)
(* raises ValueError and yields no object.                                 *)
C24_MissingHeaderField ==
    (/\ last.op = "open" /\ last.name = "load" /\ IsJson(disk)
     /\ \E f \in {"version", "kdf", "salt_b64", "created_at", "mk_hash",
                   "items_mac_b64", "items_mac_alg"} : f \notin DOMAIN disk.header)
    => /\ last.ret = Raise("ValueError")
       /\ ss[last.i] = NoObject
       /\ ~last.wrote

(* The file of a valid store with an item lost items_mac_alg and was       *)
(* opened with the key of the store.                                       *)
C24_Witness ==
    /\ last.op = "open" /\ last.name = "load" /\ origin.w = "field"
    /\ "items_mac_alg" \notin DOMAIN disk.header
    /\ hash_bytes(last.key) = disk.header.mk_hash
    /\ disk.items # <<>>
    /\ last.ret = Raise("ValueError") /\ ~Alive(last.i)

(* The item maps with the entries of items inserted in another order *)
Reorderings(items) ==
    { [j \in 1..Len(items) |-> items[f[j]]] : f \in Permutations(1..Len(items)) }

(* C25: for every object and every order its entries can be inserted in,   *)
(* the items MAC under the object's key and salt is the same, and the MAC  *)
(* computed in one order verifies over the map in every other order.       *)
C25_MacOrderIndependent ==
    \A i \in Insts :
       (Alive(i) /\ HasHeader(ss[i]))
       => \A other \in Reorderings(ss[i].items) :
             /\ compute_items_mac(ss[i], other)
                  = compute_items_mac(ss[i], ss[i].items)
             /\ verify_items_mac(ss[i], other,
                                 compute_items_mac(ss[i], ss[i].items))

(* An object holds B before A, and the map with A before B has the MAC *)
C25_Witness ==
    \E i \in Insts :
       /\ Alive(i) /\ HasHeader(ss[i]) /\ Len(ss[i].items) = 2
       /\ ss[i].items[1].name = "B" /\ ss[i].items[2].name = "A"
       /\ <<ss[i].items[2], ss[i].items[1]>> \in Reorderings(ss[i].items)
       /\ verify_items_mac(ss[i], <<ss[i].items[2], ss[i].items[1]>>,
                           compute_items_mac(ss[i], ss[i].items))

(* The associated data an entry of a document was encrypted with *)
AadOf(entry) == b64str_to_bytes(entry.ct).v.ad

(* C26: in the document a rotation to K_new wrote, every item is encrypted *)
(* under K_new with associated data that names the hash of K_new, the      *)
(* mk_hash of the header it is saved with.                                 *)
C26_ReencryptedUnderNewHash ==
    (disk # NoFile /\ origin.w = "rotate")
    => \A j \in 1..Len(disk.items) :
          /\ KeyOf(disk.items[j]) = origin.key
          /\ AadOf(disk.items[j]).mk_hash = hash_bytes(origin.key)
          /\ AadOf(disk.items[j]).mk_hash = disk.header.mk_hash

(* C27: when prepare_auto_key_exchange() of an object validated under      *)
(* K_old returns K_new: K_new differs from K_old, the object's key is      *)
(* K_old again, the persisted header still has the hash of K_old, the      *)
(* persisted items MAC verifies under K_old over a map with the reserved   *)
(* item, and the reserved item decrypts to K_old under K_new and to        *)
(* nothing under K_old.                                                    *)
C27_AfterPrepare ==
    [][ (last'.op = "prepare" /\ ~IsRaise(last'.ret) /\ ss[last'.i].validated)
        => /\ b64str_to_bytes(last'.ret.v) # ss[last'.i].mk
           /\ ss'[last'.i].mk = ss[last'.i].mk
           /\ last'.wrote /\ IsJson(disk')
           /\ disk'.header.mk_hash = hash_bytes(ss[last'.i].mk)
           /\ DictHas(disk'.items, AUTO_EXCHANGE_OLD_MASTER_KEY)
           /\ verify_items_mac(Loaded(disk', ss[last'.i].mk), disk'.items,
                               disk'.header.items_mac_b64)
           /\ retrieve_secret(Loaded(disk', b64str_to_bytes(last'.ret.v)),
                              AUTO_EXCHANGE_OLD_MASTER_KEY)
                = bytes_to_b64str(ss[last'.i].mk)
           /\ retrieve_secret(Loaded(disk', ss[last'.i].mk),
                              AUTO_EXCHANGE_OLD_MASTER_KEY) = None ]_vars

(* A store with a user item was prepared and the new key returned *)
C27_Witness ==
    /\ last.op = "prepare" /\ last.ret = RetStr(bytes_to_b64str(known))
    /\ last.wrote /\ origin.w = "prepare" /\ origin.valid
    /\ ss[last.i].mk # known
    /\ DictNames(disk.items) \cap UserNames # {}
    /\ DictHas(disk.items, AUTO_EXCHANGE_OLD_MASTER_KEY)

(* The document is a prepared one: it has the reserved item *)
IsPrepared(doc) ==
    IsJson(doc) /\ DictHas(doc.items, AUTO_EXCHANGE_OLD_MASTER_KEY)

(* An open with K_old of a prepared store validates to true and retrieves  *)
(* every user item, the one stored and saved since the prepare with its    *)
(* value.                                                                  *)
UsableUnderOldKey ==
    (/\ last'.op = "open" /\ last'.name = "load" /\ IsPrepared(disk)
     /\ hash_bytes(last'.key) = disk.header.mk_hash)
    => /\ last'.ret = RetBool(TRUE)
       /\ \A nm \in DictNames(disk.items) \cap UserNames :
             retrieve_secret(ss'[last'.i], nm) # None
       /\ (origin.w = "save" /\ origin.item # None)
          => retrieve_secret(ss'[last'.i], origin.item.name) = origin.item.value

(* The rotation of a prepared store keeps the item stored and saved under  *)
(* K_old after the prepare.                                                *)
RotationKeepsLateItem ==
    (/\ last'.op = "open" /\ last'.name = "rotate" /\ last'.ret = RetBool(TRUE)
     /\ IsPrepared(disk) /\ origin.w = "save" /\ origin.item # None)
    => retrieve_secret(ss'[last'.i], origin.item.name) = origin.item.value

(* C28: a prepared store is usable under K_old until it is opened with     *)
(* K_new: an open with K_old validates to true and retrieves every user    *)
(* item, and what was stored and saved under K_old in that window is       *)
(* retrieved after the later rotation.                                     *)
C28_PreparedStoreUsable ==
    [][ UsableUnderOldKey /\ RotationKeepsLateItem ]_vars

(* The step is a rotation that went through: an open or a call of          *)
(* validate_master_key that returned true and wrote the rotated document   *)
Rotated ==
    /\ last'.op \in {"open", "validate"} /\ last'.ret = RetBool(TRUE)
    /\ last'.wrote /\ origin'.w = "rotate"

(* C29: after a rotation that went through, the reserved item is neither   *)
(* in the object's map nor in the persisted document, the object's key is  *)
(* K_new, the header's mk_hash is the hash of K_new, the persisted items   *)
(* MAC verifies under K_new, and the user item names are those of before.  *)
C29_AfterRotation ==
    [][ Rotated
        => /\ ~DictHas(ss'[last'.i].items, AUTO_EXCHANGE_OLD_MASTER_KEY)
           /\ ~DictHas(disk'.items, AUTO_EXCHANGE_OLD_MASTER_KEY)
           /\ ss'[last'.i].mk = last'.key /\ last'.key # origin'.old
           /\ ss'[last'.i].header.mk_hash = hash_bytes(last'.key)
           /\ disk'.header.mk_hash = hash_bytes(last'.key)
           /\ verify_items_mac(Loaded(disk', last'.key), disk'.items,
                               disk'.header.items_mac_b64)
           /\ DictNames(disk'.items) = DictNames(disk.items) \cap UserNames
           /\ DictNames(ss'[last'.i].items) = DictNames(disk.items) \cap UserNames
      ]_vars

(* A prepared store with both user items was rotated *)
C29_Witness ==
    /\ last.op = "open" /\ last.name = "rotate" /\ last.ret = RetBool(TRUE)
    /\ origin.w = "rotate" /\ origin.old # last.key
    /\ DictNames(disk.items) = UserNames
    /\ ss[last.i].mk = last.key

(* The user items of the persisted prepared document were altered since    *)
(* it was written, the reserved item was not, and k is the new key: the    *)
(* reserved item decrypts under k to the key the header has the hash of.   *)
TamperedPrepared(k) ==
    /\ origin.w = "tamper" /\ IsPrepared(disk)
    /\ DictGet(disk.items, AUTO_EXCHANGE_OLD_MASTER_KEY)
         = DictGet(origin.items, AUTO_EXCHANGE_OLD_MASTER_KEY)
    /\ DictPop(disk.items, AUTO_EXCHANGE_OLD_MASTER_KEY)
         # DictPop(origin.items, AUTO_EXCHANGE_OLD_MASTER_KEY)
    /\ hash_bytes(k) # disk.header.mk_hash
    /\ retrieve_secret(Loaded(disk, k), AUTO_EXCHANGE_OLD_MASTER_KEY) # None
    /\ hash_bytes(b64str_to_bytes(
           retrieve_secret(Loaded(disk, k), AUTO_EXCHANGE_OLD_MASTER_KEY)))
         = disk.header.mk_hash

(* C30: opening a prepared store whose user items were altered after the   *)
(* prepare-save with K_new raises the integrity error, yields no object,   *)
(* runs no rotation and leaves the persisted document as it is.            *)
C30_TamperBlocksRotation ==
    [][ (last'.op = "open" /\ TamperedPrepared(last'.key))
        => /\ last'.ret = Raise("ValueError")
           /\ ss'[last'.i] = NoObject
           /\ ~last'.wrote /\ disk' = disk /\ origin' = origin ]_vars

(* Such an open happened: the document is still the altered prepared one *)
C30_Witness ==
    /\ last.op = "open" /\ last.ret = Raise("ValueError")
    /\ TamperedPrepared(last.key)
    /\ DictNames(disk.items) \cap UserNames # {}

(* The persisted header has every field and null for items_mac_b64 *)
NoMacOnDisk ==
    /\ IsJson(disk)
    /\ {"version", "kdf", "salt_b64", "created_at", "mk_hash", "items_mac_b64",
        "items_mac_alg"} \subseteq DOMAIN disk.header
    /\ disk.header.items_mac_b64 = None

(* C31: opening a document whose header has no items MAC raises the        *)
(* integrity error of validate_master_key whatever the key is: the key of  *)
(* mk_hash, an unrelated key, or the new key of a prepared rotation.       *)
C31_MissingMacIsFatal ==
    (last.op = "open" /\ last.name = "load" /\ NoMacOnDisk)
    => /\ last.ret = Raise("ValueError")
       /\ ss[last.i] = NoObject

(* A prepared store lost its items MAC and was opened with a key that is   *)
(* not the one of mk_hash.                                                 *)
C31_Witness ==
    /\ last.op = "open" /\ last.name = "load" /\ NoMacOnDisk
    /\ origin.w = "nomac" /\ IsPrepared(disk)
    /\ hash_bytes(last.key) # disk.header.mk_hash
    /\ last.ret = Raise("ValueError")

(* The first open of a document prepared by a caller whose key validated,  *)
(* with the new key, the one the reserved item is encrypted under,         *)
(* rewrites the file as a rotated one.                                     *)
FirstOpenRotates ==
    (/\ origin.w = "prepare" /\ origin.valid /\ last'.op = "open"
     /\ last'.key = KeyOf(DictGet(disk.items, AUTO_EXCHANGE_OLD_MASTER_KEY)))
    => /\ last'.ret = RetBool(TRUE) /\ last'.wrote
       /\ origin'.w = "rotate" /\ disk' # disk

(* An open with K_new of the document the rotation wrote, or a call of     *)
(* validate_master_key on an object with K_new while that document is the  *)
(* persisted one, returns true and leaves items and file as they are.      *)
LaterValidationIsDirect ==
    /\ last'.ret = RetBool(TRUE)
    /\ ~last'.wrote /\ disk' = disk /\ origin' = origin
    /\ ss'[last'.i].items = (IF last'.op = "open" THEN disk.items
                             ELSE ss[last'.i].items)
    /\ ss'[last'.i].mk = last'.key

C33_WrongKeyHolderHarmless ==
    (/\ last.op = "open" /\ last.name = "load"
     /\ origin.w \in {"save", "prepare"} /\ ~origin.valid
     /\ hash_bytes(last.key) = disk.header.mk_hash)
    => /\ last.ret = RetBool(TRUE)
       /\ \A nm \in DictNames(disk.items) \cap UserNames :
             retrieve_secret(ss[last.i], nm) # None

(* C34: every persisted document written by a caller whose key validated   *)
(* to true (by creation, save, scoped exit, prepare or rotation) has an    *)
(* items MAC that verifies over the document's own item map under the      *)
(* master key whose hash is the document's mk_hash.                        *)
C34_MacConsistentOnDisk ==
    (disk # NoFile /\ origin.valid)
    => /\ disk.header.items_mac_b64 # None
       /\ verify_items_mac(Loaded(disk, KeyOfHash(disk.header.mk_hash)),
                           disk.items, disk.header.items_mac_b64)

(* A validated caller saved an item into a prepared store *)
C34_Witness ==
    /\ disk # NoFile /\ origin.valid /\ origin.w = "save" /\ origin.item # None
    /\ IsPrepared(disk)
    /\ verify_items_mac(Loaded(disk, KeyOfHash(disk.header.mk_hash)),
                        disk.items, disk.header.items_mac_b64)

(* An open of the document with key k validates to true *)
ValidUnder(doc, k) ==
    init(doc, k, 1, 0, CHOOSE nn \in NonceChoices : TRUE).ret = RetBool(TRUE)

C38_FailedValidationChangesNothing ==
    [][ (last'.op \in {"open", "validate"} /\ last'.ret = RetBool(FALSE))
        => /\ ss'[last'.i].mk = last'.key
           /\ ss'[last'.i].items
                = (IF last'.op = "open" THEN disk.items ELSE ss[last'.i].items)
           /\ ss'[last'.i].header
                = (IF last'.op = "open" THEN disk.header ELSE ss[last'.i].header)
           /\ ss'[last'.i].dirty
                = (IF last'.op = "open" THEN FALSE ELSE ss[last'.i].dirty)
           /\ ~last'.wrote /\ disk' = disk /\ origin' = origin ]_vars

(* A store holding a user item was opened with a key that is not its key  *)
C38_Witness ==
    /\ last.op = "open" /\ last.ret = RetBool(FALSE)
    /\ DictNames(disk.items) \cap UserNames # {}
    /\ ss[last.i].items = disk.items /\ ss[last.i].mk = last.key
    /\ ~ss[last.i].dirty

----------------------------------------------------------------------------
(* Repeated preparation: prepare_auto_key_exchange() is called on a store  *)
(* that already holds a reserved item, by the object that prepared it or   *)
(* by one opened since, and returns one more key.  The origin records as   *)
(* "old" the key the replaced reserved item was encrypted under, which is  *)
(* the key the earlier preparation returned.                               *)
PrepareAgain(i) ==
    /\ Alive(i)
    /\ DictHas(ss[i].items, AUTO_EXCHANGE_OLD_MASTER_KEY)
    /\ known < MaxKeys + 1
    /\ \E nonce \in NonceBytes :
         Written(i, "prepare", "reprepare",
                 KeyOf(DictGet(ss[i].items, AUTO_EXCHANGE_OLD_MASTER_KEY)),
                 prepare_auto_key_exchange(ss[i], generate_key_str(known), nonce).st,
                 prepare_auto_key_exchange(ss[i], generate_key_str(known), nonce))
    /\ known' = known + 1
    /\ UNCHANGED ops

Repeat(i) ==
    \/ Open(i)
    \/ Close(i)
    \/ StoreSecret(i)
    \/ Exit(i)
    \/ Prepare(i)
    \/ PrepareAgain(i)

NextRepeat == Repeat(1)

SpecRepeat == Init /\ [][NextRepeat]_vars

(* The file was last written by a second preparation *)
Reprepared == origin.w = "reprepare"

(* The key the second preparation returned: the reserved item's key *)
SecondKey == KeyOf(DictGet(disk.items, AUTO_EXCHANGE_OLD_MASTER_KEY))

(* An open with the key of the second preparation rotates the store *)
SecondKeyRotates ==
    (Reprepared /\ last'.op = "open" /\ last'.key = SecondKey)
    => /\ last'.ret = RetBool(TRUE) /\ last'.name = "rotate"
       /\ disk'.header.mk_hash = hash_bytes(SecondKey)

(* and the rotation keeps every secret that was retrievable under K_old *)
SecondKeyKeepsSecrets ==
    (Reprepared /\ last'.op = "open" /\ last'.key = SecondKey)
    => \A nm \in UserNames :
          retrieve_secret(Loaded(disk, origin.key), nm) # None
          => retrieve_secret(ss'[last'.i], nm)
               = retrieve_secret(Loaded(disk, origin.key), nm)

(* An open with the key of the first preparation validates to false and    *)
(* writes nothing                                                          *)
FirstKeyRefused ==
    (Reprepared /\ last'.op = "open" /\ last'.key = origin.old)
    => last'.ret = RetBool(FALSE) /\ ~last'.wrote /\ disk' = disk

(* The twice prepared document validates under K_old *)
RepreparedValidUnderOld ==
    origin'.w = "reprepare" => ValidUnder(disk', origin'.key)

(* C37: after two preparations with no open with a new key in between,     *)
(* an open with the key the second returned rotates the store and keeps    *)
(* the secrets, an open with the key the first returned validates to       *)
(* false, and the store validates under K_old.                             *)
C37_RepeatedPreparation ==
    [][ /\ SecondKeyRotates /\ SecondKeyKeepsSecrets
        /\ FirstKeyRefused /\ RepreparedValidUnderOld ]_vars

====
